---- MODULE Spec2Model ----
(***************************************************************************)
(* MorseForge key link (software/code.py): two active-low paddle contacts  *)
(* (DIT, DAH) are polled by one cooperative loop, debounced against the    *)
(* time of their last confirmed change, reported as events, shown on a     *)
(* NeoPixel and relayed over a BLE UART while a peer is connected.         *)
(*                                                                         *)
(* Time is in milliseconds.  The pins, the BLE stack and the clock are the *)
(* environment: they change between the steps of the loop.                 *)
(***************************************************************************)
EXTENDS Integers, Sequences, FiniteSets, TLC

\* ---------------------------------------------------------------- constants

\* DEBOUNCE_S = 0.010, in ms.
DEBOUNCE == 10

\* The rate limit of safe_uart_write's report, (now - last_uart_error) > 2.0, in ms.
UART_ERROR_INTERVAL == 2000

\* The clock values the model explores end here.
MaxTime == 25

\* The long quiet periods a behaviour may hold.
MaxIdle == 2

\* How far the clock moves between two reads: half a debounce window or a whole one.
Steps == {DEBOUNCE \div 2, DEBOUNCE}

\* The colours the loop requests.
IDLE_BLUE == <<0, 0, 12>>
PURPLE    == <<12, 0, 12>>
GREEN     == <<0, 20, 0>>
BRIGHT_BLUE == <<0, 0, 20>>

VARIABLES
    BLE_AVAILABLE,    \* the adafruit_ble import succeeded
    clock,            \* time.monotonic(), ms
    pc,               \* where the program is: "startup", "top", "dit", "dah", "sleep"
    now,              \* the loop's time snapshot of this tick
    dit_value,        \* dit.value, the raw level of the DIT pin (FALSE = pressed)
    dah_value,        \* dah.value
    dit_held,         \* how long the DIT pin has been at dit_value, capped at DEBOUNCE
    dah_held,
    last_dit,         \* confirmed level of DIT
    last_dah,
    last_change_dit,  \* time of DIT's last confirmed change (or of its seeding)
    last_change_dah,
    ble_connected,    \* ble.connected
    ble_advertising,  \* ble.advertising
    link_dropped,     \* a peer disconnected since the loop last read ble.connected
    last_connected,
    last_uart_error,
    pixel,            \* the colour most recently requested of the NeoPixel
    events,           \* the event log lines printed in this tick
    wire,             \* the uart.write calls of this tick
    reports,          \* the "UART write failed" lines printed in this tick
    adv_calls,        \* the ble.start_advertising calls of this tick (or of startup)
    first_tick        \* the loop has not finished its first iteration

pins  == <<dit_value, dah_value, dit_held, dah_held>>
deb   == <<last_dit, last_dah, last_change_dit, last_change_dah>>
radio == <<ble_connected, ble_advertising, link_dropped>>
outs  == <<pixel, events, wire, reports, adv_calls, last_uart_error>>
vars  == <<BLE_AVAILABLE, clock, pc, now, pins, deb, radio, last_connected, outs,
           first_tick>>

\* ------------------------------------------------------------------ helpers

Min(a, b) == IF a < b THEN a ELSE b
Max(a, b) == IF a > b THEN a ELSE b

\* pixel_set(r, g, b): each channel clamped to 0..255, then requested.
pixel_set(r, g, b) == <<Max(0, Min(255, r)), Max(0, Min(255, g)), Max(0, Min(255, b))>>

\* ms(): int(time.monotonic() * 1000); the clock is kept in ms.
ms == clock

\* ble_is_connected(): bool(BLE_AVAILABLE and ble and ble.connected); ble is None
\* exactly when BLE_AVAILABLE is false.
ble_is_connected == BLE_AVAILABLE /\ ble_connected

\* A send that tests the capability only, not the connection.
safe_uart_write_unchecked(event_text) ==
    IF ~BLE_AVAILABLE
    THEN UNCHANGED <<wire, reports, last_uart_error>>
    ELSE /\ wire' = Append(wire, [data |-> event_text \o "\n", ok |-> TRUE])
         /\ UNCHANGED <<reports, last_uart_error>>

\* A send that forgets the line terminator.
safe_uart_write_no_newline(event_text) ==
    IF ~ble_is_connected
    THEN UNCHANGED <<wire, reports, last_uart_error>>
    ELSE \E ok \in BOOLEAN :
           /\ wire' = Append(wire, [data |-> event_text, ok |-> ok])
           /\ UNCHANGED <<reports, last_uart_error>>

\* A send that reports every failure.
safe_uart_write_unlimited(event_text) ==
    IF ~ble_is_connected
    THEN UNCHANGED <<wire, reports, last_uart_error>>
    ELSE \E ok \in BOOLEAN :
           /\ wire' = Append(wire, [data |-> event_text \o "\n", ok |-> ok])
           /\ IF ok
              THEN UNCHANGED <<reports, last_uart_error>>
              ELSE reports' = reports + 1 /\ last_uart_error' = clock

\* A send that tries a failed write a second time.
safe_uart_write_retry(event_text) ==
    IF ~ble_is_connected
    THEN UNCHANGED <<wire, reports, last_uart_error>>
    ELSE \E ok \in BOOLEAN :
           /\ wire' = IF ok
                      THEN Append(wire, [data |-> event_text \o "\n", ok |-> TRUE])
                      ELSE wire \o << [data |-> event_text \o "\n", ok |-> FALSE],
                                     [data |-> event_text \o "\n", ok |-> TRUE] >>
           /\ UNCHANGED <<reports, last_uart_error>>

\* safe_uart_write(event_text): nothing unless connected; otherwise one uart.write
\* of the line and a newline, which the stack may fail; a failure is reported when
\* more than 2 s have passed since the last report.
safe_uart_write(event_text) ==
    IF ~ble_is_connected
    THEN UNCHANGED <<wire, reports, last_uart_error>>
    ELSE \E ok \in BOOLEAN :
           /\ wire' = Append(wire, [data |-> event_text \o "\n", ok |-> ok])
           /\ IF ok
              THEN UNCHANGED <<reports, last_uart_error>>
              ELSE IF (clock - last_uart_error) > UART_ERROR_INTERVAL
                   THEN reports' = reports + 1 /\ last_uart_error' = clock
                   ELSE UNCHANGED <<reports, last_uart_error>>

\* A release that always restores the idle colour, whatever the link state.
release_colour_hardcoded == pixel_set(0, 0, 12)

\* The colour a release restores: purple while connected, idle blue otherwise.
release_colour ==
    IF BLE_AVAILABLE /\ ble_connected THEN pixel_set(12, 0, 12) ELSE pixel_set(0, 0, 12)

\* A debounce test that needs more than the window.
edge_confirmed_strict(cur, last, last_change) ==
    cur /= last /\ (now - last_change) > DEBOUNCE

\* A debounce test with half the window.
edge_confirmed_half(cur, last, last_change) ==
    cur /= last /\ (now - last_change) >= DEBOUNCE \div 2

\* A debounce test that fires whenever the level is confirmed or the window is over.
edge_confirmed_either(cur, last, last_change) ==
    cur /= last \/ (now - last_change) >= DEBOUNCE

\* A debounce test that forgets to compare the levels.
edge_confirmed_timeonly(cur, last, last_change) ==
    (now - last_change) >= DEBOUNCE

\* A debounce test with the operands of the subtraction exchanged.
edge_confirmed_swapped(cur, last, last_change) ==
    cur /= last /\ (last_change - now) >= DEBOUNCE

\* The debounce test of one contact.
edge_confirmed(cur, last, last_change) ==
    cur /= last /\ (now - last_change) >= DEBOUNCE

\* ---------------------------------------------------------------- the program

\* After the seeding of the debounce state and pixel_set(0, 0, 12); the BLE objects
\* are built when the import succeeded.
Init ==
    /\ BLE_AVAILABLE \in BOOLEAN
    /\ clock = 0
    /\ pc = "startup"
    /\ now = 0
    /\ dit_value \in BOOLEAN
    /\ dah_value \in BOOLEAN
    /\ dit_held = 0
    /\ dah_held = 0
    /\ last_dit = dit_value
    /\ last_dah = dah_value
    /\ last_change_dit = clock
    /\ last_change_dah = clock
    /\ ble_connected = FALSE
    /\ ble_advertising = FALSE
    /\ link_dropped = FALSE
    /\ last_connected = FALSE
    /\ last_uart_error = 0
    /\ pixel = pixel_set(0, 0, 12)
    /\ events = <<>>
    /\ wire = <<>>
    /\ reports = 0
    /\ adv_calls = 0
    /\ first_tick = TRUE

\* A startup that advertises without testing the capability.
Startup_unguarded ==
    /\ pc = "startup"
    /\ pc' = "top"
    /\ ble_advertising' = TRUE
    /\ adv_calls' = adv_calls + 1
    /\ UNCHANGED <<BLE_AVAILABLE, first_tick, clock, now, pins, deb, ble_connected, link_dropped,
                   last_connected, last_uart_error, pixel, events, wire, reports>>

\* The banner and the first start_advertising.
Startup ==
    /\ pc = "startup"
    /\ pc' = "top"
    /\ IF BLE_AVAILABLE
       THEN ble_advertising' = TRUE /\ adv_calls' = adv_calls + 1
       ELSE UNCHANGED <<ble_advertising, adv_calls>>
    /\ UNCHANGED <<BLE_AVAILABLE, first_tick, clock, now, pins, deb, ble_connected, link_dropped,
                   last_connected, last_uart_error, pixel, events, wire, reports>>

\* A loop top that goes on to the DAH evaluation, passing over DIT's.
LinkPoll_skips_dit ==
    /\ pc = "top"
    /\ pc' = "dah"
    /\ now' = clock
    /\ events' = <<>>
    /\ wire' = <<>>
    /\ reports' = 0
    /\ link_dropped' = FALSE
    /\ IF BLE_AVAILABLE /\ ble_connected /= last_connected
       THEN /\ last_connected' = ble_connected
            /\ IF ble_connected
               THEN /\ pixel' = pixel_set(12, 0, 12)
                    /\ adv_calls' = 0
                    /\ UNCHANGED ble_advertising
               ELSE /\ IF ~ble_advertising
                       THEN ble_advertising' = TRUE /\ adv_calls' = 1
                       ELSE UNCHANGED ble_advertising /\ adv_calls' = 0
                    /\ pixel' = pixel_set(0, 0, 12)
       ELSE /\ adv_calls' = 0
            /\ UNCHANGED <<last_connected, pixel, ble_advertising>>
    /\ UNCHANGED <<BLE_AVAILABLE, first_tick, clock, pins, deb, ble_connected, last_uart_error>>

\* The top of one iteration: the time snapshot, then the check for a BLE
\* connection change.
LinkPoll ==
    /\ pc = "top"
    /\ pc' = "dit"
    /\ now' = clock
    /\ events' = <<>>
    /\ wire' = <<>>
    /\ reports' = 0
    /\ link_dropped' = FALSE
    /\ IF BLE_AVAILABLE /\ ble_connected /= last_connected
       THEN /\ last_connected' = ble_connected
            /\ IF ble_connected
               THEN /\ pixel' = pixel_set(12, 0, 12)
                    /\ adv_calls' = 0
                    /\ UNCHANGED ble_advertising
               ELSE /\ IF ~ble_advertising
                       THEN ble_advertising' = TRUE /\ adv_calls' = 1
                       ELSE UNCHANGED ble_advertising /\ adv_calls' = 0
                    /\ pixel' = pixel_set(0, 0, 12)
       ELSE /\ adv_calls' = 0
            /\ UNCHANGED <<last_connected, pixel, ble_advertising>>
    /\ UNCHANGED <<BLE_AVAILABLE, first_tick, clock, pins, deb, ble_connected, last_uart_error>>

\* DIT edge detect with debounce.
DitStep ==
    /\ pc = "dit"
    /\ pc' = "dah"
    /\ LET cur_dit == dit_value IN
       IF edge_confirmed(cur_dit, last_dit, last_change_dit)
       THEN /\ last_change_dit' = now
            /\ last_dit' = cur_dit
            /\ IF ~cur_dit
               THEN /\ events' = Append(events, [contact |-> "DIT", name |-> "DIT_DOWN",
                                                 ts |-> ms, at |-> now])
                    /\ pixel' = pixel_set(0, 20, 0)
                    /\ safe_uart_write("K1:1")
               ELSE /\ events' = Append(events, [contact |-> "DIT", name |-> "DIT_UP",
                                                 ts |-> ms, at |-> now])
                    /\ pixel' = release_colour
                    /\ safe_uart_write("K1:0")
       ELSE UNCHANGED <<last_change_dit, last_dit, events, pixel, wire, reports,
                        last_uart_error>>
    /\ UNCHANGED <<BLE_AVAILABLE, first_tick, clock, now, pins, last_dah, last_change_dah, radio,
                   last_connected, adv_calls>>

\* A DAH edge detect that measures its window from DIT's last change.
DahStep_crossed ==
    /\ pc = "dah"
    /\ pc' = "sleep"
    /\ LET cur_dah == dah_value IN
       IF edge_confirmed(cur_dah, last_dah, last_change_dit)
       THEN /\ last_change_dah' = now
            /\ last_dah' = cur_dah
            /\ IF ~cur_dah
               THEN /\ events' = Append(events, [contact |-> "DAH", name |-> "DAH_DOWN",
                                                 ts |-> ms, at |-> now])
                    /\ pixel' = pixel_set(0, 0, 20)
                    /\ safe_uart_write("K2:1")
               ELSE /\ events' = Append(events, [contact |-> "DAH", name |-> "DAH_UP",
                                                 ts |-> ms, at |-> now])
                    /\ pixel' = release_colour
                    /\ safe_uart_write("K2:0")
       ELSE UNCHANGED <<last_change_dah, last_dah, events, pixel, wire, reports,
                        last_uart_error>>
    /\ UNCHANGED <<BLE_AVAILABLE, first_tick, clock, now, pins, last_dit, last_change_dit, radio,
                   last_connected, adv_calls>>

\* DAH edge detect with debounce.
DahStep ==
    /\ pc = "dah"
    /\ pc' = "sleep"
    /\ LET cur_dah == dah_value IN
       IF edge_confirmed(cur_dah, last_dah, last_change_dah)
       THEN /\ last_change_dah' = now
            /\ last_dah' = cur_dah
            /\ IF ~cur_dah
               THEN /\ events' = Append(events, [contact |-> "DAH", name |-> "DAH_DOWN",
                                                 ts |-> ms, at |-> now])
                    /\ pixel' = pixel_set(0, 0, 20)
                    /\ safe_uart_write("K2:1")
               ELSE /\ events' = Append(events, [contact |-> "DAH", name |-> "DAH_UP",
                                                 ts |-> ms, at |-> now])
                    /\ pixel' = release_colour
                    /\ safe_uart_write("K2:0")
       ELSE UNCHANGED <<last_change_dah, last_dah, events, pixel, wire, reports,
                        last_uart_error>>
    /\ UNCHANGED <<BLE_AVAILABLE, first_tick, clock, now, pins, last_dit, last_change_dit, radio,
                   last_connected, adv_calls>>

\* The clock moves by d: both pins have held their level d longer.  The clock
\* values explored lie within MaxTime of the boot or of the end of a long quiet
\* period.
Advance(d) ==
    /\ (clock % UART_ERROR_INTERVAL) + d <= MaxTime
    /\ clock' = clock + d
    /\ dit_held' = Min(dit_held + d, DEBOUNCE)
    /\ dah_held' = Min(dah_held + d, DEBOUNCE)

\* time.sleep(0.001): the loop resumes at least 1 ms later.
Sleep ==
    /\ pc = "sleep"
    /\ pc' = "top"
    /\ \E d \in Steps : Advance(d)
    /\ first_tick' = FALSE
    /\ UNCHANGED <<BLE_AVAILABLE, now, dit_value, dah_value, deb, radio, last_connected,
                   outs>>

\* ------------------------------------------------------------ the environment

\* Time passes while the program is between two statements (the BLE setup and the
\* banner at startup; the prints and the BLE stack's work within a tick).
Elapse ==
    /\ pc \in {"startup", "dit", "dah"}
    /\ \E d \in Steps : Advance(d)
    /\ UNCHANGED <<BLE_AVAILABLE, first_tick, pc, now, dit_value, dah_value, deb, radio,
                   last_connected, outs>>

\* A contact opens or closes (or bounces).
DitToggle ==
    /\ dit_value' = ~dit_value
    /\ dit_held' = 0
    /\ UNCHANGED <<BLE_AVAILABLE, first_tick, clock, pc, now, dah_value, dah_held, deb, radio,
                   last_connected, outs>>

DahToggle ==
    /\ dah_value' = ~dah_value
    /\ dah_held' = 0
    /\ UNCHANGED <<BLE_AVAILABLE, first_tick, clock, pc, now, dit_value, dit_held, deb, radio,
                   last_connected, outs>>

\* A central connects to the advertising peripheral; advertising stops.
PeerConnect ==
    /\ BLE_AVAILABLE /\ ble_advertising /\ ~ble_connected
    /\ ble_connected' = TRUE
    /\ ble_advertising' = FALSE
    /\ UNCHANGED <<BLE_AVAILABLE, first_tick, clock, pc, now, pins, deb, link_dropped,
                   last_connected, outs>>

\* The central goes away; the stack does not advertise again by itself.
PeerDisconnect ==
    /\ BLE_AVAILABLE /\ ble_connected
    /\ ble_connected' = FALSE
    /\ link_dropped' = TRUE
    /\ UNCHANGED <<BLE_AVAILABLE, first_tick, clock, pc, now, pins, deb, ble_advertising,
                   last_connected, outs>>

\* The stack stops advertising without any connection or notification.
AdvertisingDrop ==
    /\ BLE_AVAILABLE /\ ble_advertising
    /\ ble_advertising' = FALSE
    /\ UNCHANGED <<BLE_AVAILABLE, first_tick, clock, pc, now, pins, deb, ble_connected,
                   link_dropped, last_connected, outs>>

Next ==
    \/ Startup
    \/ LinkPoll
    \/ DitStep
    \/ DahStep
    \/ Sleep
    \/ Elapse
    \/ DitToggle
    \/ DahToggle
    \/ PeerConnect
    \/ PeerDisconnect
    \/ AdvertisingDrop

Spec == Init /\ [][Next]_vars

\* The loop under its scheduling: one thread runs the steps of the loop in order and
\* every step returns, so a step that is due is taken; time passes in the loop's
\* sleep; the contacts and the peer act when they choose.
LiveNext ==
    \/ Startup
    \/ LinkPoll
    \/ DitStep
    \/ DahStep
    \/ Sleep
    \/ DitToggle
    \/ DahToggle
    \/ PeerConnect
    \/ PeerDisconnect
    \/ AdvertisingDrop

LiveSpec ==
    /\ Init
    /\ [][LiveNext]_vars
    /\ WF_vars(Startup)
    /\ WF_vars(LinkPoll)
    /\ WF_vars(DitStep)
    /\ WF_vars(DahStep)
    /\ WF_vars(Sleep)

\* A long quiet period: the loop runs for a whole report interval while both
\* contacts rest released and the link stays as last seen, so none of its
\* iterations prints, writes or changes anything.
LongIdle ==
    /\ pc = "sleep"
    /\ pc' = "top"
    /\ dit_value /\ last_dit /\ dah_value /\ last_dah
    /\ ble_connected = last_connected
    /\ clock + UART_ERROR_INTERVAL <= MaxIdle * UART_ERROR_INTERVAL + MaxTime
    /\ clock' = clock + UART_ERROR_INTERVAL
    /\ dit_held' = DEBOUNCE
    /\ dah_held' = DEBOUNCE
    /\ first_tick' = FALSE
    /\ link_dropped' = FALSE
    /\ UNCHANGED <<BLE_AVAILABLE, now, dit_value, dah_value, deb, ble_connected,
                   ble_advertising, last_connected, outs>>

\* The program over a long run with BLE: both contacts released at boot, bursts of
\* keying separated by long quiet periods, time passing in the loop's sleep.
InitLate == Init /\ BLE_AVAILABLE /\ dit_value /\ dah_value

LateNext ==
    \/ Startup
    \/ LinkPoll
    \/ DitStep
    \/ DahStep
    \/ Sleep
    \/ DitToggle
    \/ DahToggle
    \/ PeerConnect
    \/ PeerDisconnect
    \/ LongIdle

SpecLate == InitLate /\ [][LateNext]_vars

\* ------------------------------------------------------------------- claims

\* The steps in which the loop evaluates a contact, and what they print.
DitEval == pc = "dit" /\ pc' = "dah"
DahEval == pc = "dah" /\ pc' = "sleep"
Emitted == Len(events') = Len(events) + 1
NewEvent == events'[Len(events')]
DitEventIn(log) == \E i \in 1..Len(log) : log[i].contact = "DIT"
DahEventIn(log) == \E i \in 1..Len(log) : log[i].contact = "DAH"

\* C1: a tick emits an event for a contact exactly when the raw level read differs
\* from the confirmed level and now - last_change >= 10 ms; it then emits one event
\* and sets the confirmed level and last_change to (raw, now); otherwise the
\* contact's confirmed level and last_change keep their values.
C1_DebounceRule ==
    [][ /\ DitEval =>
              IF dit_value /= last_dit /\ now - last_change_dit >= 10
              THEN /\ Emitted /\ NewEvent.contact = "DIT"
                   /\ last_dit' = dit_value /\ last_change_dit' = now
              ELSE events' = events /\ UNCHANGED <<last_dit, last_change_dit>>
        /\ DahEval =>
              IF dah_value /= last_dah /\ now - last_change_dah >= 10
              THEN /\ Emitted /\ NewEvent.contact = "DAH"
                   /\ last_dah' = dah_value /\ last_change_dah' = now
              ELSE events' = events /\ UNCHANGED <<last_dah, last_change_dah>>
        /\ ~DitEval => UNCHANGED <<last_dit, last_change_dit>>
        /\ ~DahEval => UNCHANGED <<last_dah, last_change_dah>>
        /\ ~(DitEval \/ DahEval) => events' = events \/ events' = <<>>
      ]_vars

\* C1's case: DIT was confirmed in this tick, exactly one window after its seeding.
C1_Witness ==
    /\ pc = "dah"
    /\ Len(events) = 1 /\ events[1].contact = "DIT"
    /\ last_change_dit = now /\ now = 10
    /\ last_dit = dit_value

\* C2 as stated: a raw level is confirmed (and its event emitted) only when the pin
\* has held that level for at least 10 ms.
C2_StableBeforeConfirm ==
    [][ /\ (DitEval /\ Emitted) => dit_held >= 10
        /\ (DahEval /\ Emitted) => dah_held >= 10
      ]_vars

\* C2 as amended: the confirmed level changes only in the contact's own evaluation,
\* to the raw level sampled there, with an event, when that sample differs from the
\* confirmed level and 10 ms have passed since the contact's previous confirmed
\* change (or its seeding); how long the pin has held the level plays no part.
C2_ConfirmedIsLastAcceptedSample ==
    [][ /\ (last_dit' /= last_dit \/ (DitEval /\ Emitted)) =>
              /\ DitEval /\ Emitted
              /\ dit_value /= last_dit /\ last_dit' = dit_value
              /\ now - last_change_dit >= 10
        /\ (last_dah' /= last_dah \/ (DahEval /\ Emitted)) =>
              /\ DahEval /\ Emitted
              /\ dah_value /= last_dah /\ last_dah' = dah_value
              /\ now - last_change_dah >= 10
      ]_vars

\* C2's case: DIT was confirmed in this tick at a level the pin took at this very
\* instant.
C2_Witness ==
    /\ pc = "dah"
    /\ DitEventIn(events)
    /\ clock = now /\ last_change_dit = now
    /\ dit_held = 0 /\ last_dit = dit_value

\* C3: two consecutive events of one contact are confirmed at tick times at least
\* 10 ms apart, and a contact's first event at least 10 ms after its seeding
\* (last_change holds the time of the previous event, or of the seeding).
C3_OnePerWindow ==
    [][ /\ (DitEval /\ Emitted) =>
              last_change_dit' = now /\ last_change_dit' - last_change_dit >= 10
        /\ (DahEval /\ Emitted) =>
              last_change_dah' = now /\ last_change_dah' - last_change_dah >= 10
      ]_vars

\* C3's case: a DAH release confirmed two windows after the seeding, the earliest
\* tick at which an event can follow an earlier one (the press at 10 ms).
C3_Witness ==
    /\ pc = "sleep"
    /\ Len(events) = 1 /\ events[1].name = "DAH_UP"
    /\ last_change_dah = now /\ now = 20

\* C4: uart.write is called only when BLE is available and ble.connected holds at
\* the call; an evaluation made while not connected writes nothing, reports
\* nothing and leaves the link state as it was.
C4_WriteOnlyWhileConnected ==
    [][ /\ Len(wire') > Len(wire) => BLE_AVAILABLE /\ ble_connected
        /\ ((DitEval \/ DahEval) /\ ~(BLE_AVAILABLE /\ ble_connected)) =>
              /\ wire' = wire /\ reports' = reports
              /\ UNCHANGED <<ble_connected, ble_advertising, last_connected,
                             last_uart_error>>
      ]_vars

\* C4's case: an event of this tick was sent while the link was advertising, and
\* nothing was written.
C4_Witness ==
    /\ pc = "dah"
    /\ DitEventIn(events)
    /\ BLE_AVAILABLE /\ ble_advertising /\ ~ble_connected /\ ~last_connected
    /\ wire = <<>> /\ reports = 0

\* The line of an event under the active-low rule.
LineOf(contact, raw) ==
    IF contact = "DIT" THEN (IF raw THEN "K1:0" ELSE "K1:1")
                       ELSE (IF raw THEN "K2:0" ELSE "K2:1")

\* One write of exactly this line and a newline, which succeeded or failed.
WroteLine(line) ==
    \E ok \in BOOLEAN : wire' = Append(wire, [data |-> line \o "\n", ok |-> ok])

\* C5: every confirmed event has exactly one line, K1:1 / K1:0 / K2:1 / K2:0 by
\* contact and active-low level; while connected that line and a newline are
\* written once for the event, and nothing else is ever written.
C5_OneLinePerEvent ==
    [][ /\ (DitEval /\ Emitted) =>
              IF BLE_AVAILABLE /\ ble_connected
              THEN WroteLine(LineOf("DIT", dit_value))
              ELSE wire' = wire
        /\ (DahEval /\ Emitted) =>
              IF BLE_AVAILABLE /\ ble_connected
              THEN WroteLine(LineOf("DAH", dah_value))
              ELSE wire' = wire
        /\ ~((DitEval \/ DahEval) /\ Emitted) => wire' = wire \/ wire' = <<>>
      ]_vars

\* C5's case: a DIT press and a DAH release confirmed in one tick while connected;
\* the peer received both lines.
C5_Witness ==
    /\ pc = "sleep"
    /\ wire = << [data |-> "K1:1\n", ok |-> TRUE], [data |-> "K2:0\n", ok |-> TRUE] >>
    /\ Len(events) = 2

\* The step in which the loop reads ble.connected.
Polled == pc = "top" /\ pc' = "dit"

\* C6: in every tick in which BLE is available and the link is found neither
\* connected nor advertising, start_advertising is invoked in that tick.
C6_ReadvertiseEveryTick ==
    [][ (Polled /\ BLE_AVAILABLE /\ ~ble_connected /\ ~ble_advertising) =>
            adv_calls' >= 1 /\ ble_advertising'
      ]_vars

\* C7: after every disconnect the link is advertising again at the end of the next
\* link-state poll.
C7_AdvertisingAfterDisconnect ==
    [][ (Polled /\ BLE_AVAILABLE /\ link_dropped) => ble_advertising' ]_vars

\* The active colours of the contacts whose confirmed level is pressed.
PressedColours ==
    (IF ~last_dit THEN {GREEN} ELSE {}) \cup (IF ~last_dah THEN {BRIGHT_BLUE} ELSE {})

\* C8: at the end of every tick, when a contact's confirmed level is pressed the
\* colour last requested is the active colour of a contact that is pressed.
C8_PressedColourWins ==
    pc = "sleep" => (PressedColours /= {} => pixel \in PressedColours)

\* The colour of the link state at the instant of a release.
LinkColour == IF BLE_AVAILABLE /\ ble_connected THEN PURPLE ELSE IDLE_BLUE

\* C9: a confirmed press requests the contact's active colour, a confirmed release
\* the colour of the link state at that moment (purple while connected, idle blue
\* otherwise), and the event's line is then passed to send, which writes it while
\* connected.
C9_EventColourThenSend ==
    [][ /\ (DitEval /\ Emitted) =>
              /\ pixel' = IF dit_value THEN LinkColour ELSE GREEN
              /\ NewEvent.name = IF dit_value THEN "DIT_UP" ELSE "DIT_DOWN"
              /\ (BLE_AVAILABLE /\ ble_connected) =>
                     WroteLine(IF dit_value THEN "K1:0" ELSE "K1:1")
        /\ (DahEval /\ Emitted) =>
              /\ pixel' = IF dah_value THEN LinkColour ELSE BRIGHT_BLUE
              /\ NewEvent.name = IF dah_value THEN "DAH_UP" ELSE "DAH_DOWN"
              /\ (BLE_AVAILABLE /\ ble_connected) =>
                     WroteLine(IF dah_value THEN "K2:0" ELSE "K2:1")
      ]_vars

\* C9's case: the release of DIT was confirmed while connected; the pixel went back
\* to purple and the peer received K1:0.
C9_Witness ==
    /\ pc = "dah"
    /\ Len(events) = 1 /\ events[1].name = "DIT_UP"
    /\ ble_connected /\ last_connected
    /\ pixel = PURPLE
    /\ wire = << [data |-> "K1:0\n", ok |-> TRUE] >>

\* C10: without the BLE libraries start_advertising and uart.write are never
\* invoked, nothing is reported, last_connected stays false, a release always
\* restores idle blue, and both contacts are debounced by the same rule as with a
\* link that never connects.
C10_UnsupportedMode ==
    [][ ~BLE_AVAILABLE =>
          /\ adv_calls' = 0 /\ wire' = <<>> /\ reports' = 0
          /\ ~last_connected' /\ ~ble_connected' /\ ~ble_advertising'
          /\ DitEval =>
                IF dit_value /= last_dit /\ now - last_change_dit >= DEBOUNCE
                THEN /\ Emitted /\ last_dit' = dit_value /\ last_change_dit' = now
                     /\ pixel' = IF dit_value THEN IDLE_BLUE ELSE GREEN
                ELSE UNCHANGED <<events, last_dit, last_change_dit, pixel>>
          /\ DahEval =>
                IF dah_value /= last_dah /\ now - last_change_dah >= DEBOUNCE
                THEN /\ Emitted /\ last_dah' = dah_value /\ last_change_dah' = now
                     /\ pixel' = IF dah_value THEN IDLE_BLUE ELSE BRIGHT_BLUE
                ELSE UNCHANGED <<events, last_dah, last_change_dah, pixel>>
          /\ ~(DitEval \/ DahEval) => UNCHANGED <<deb, pixel>>
      ]_vars

\* C10's case: without BLE, a DAH release was confirmed and the pixel is idle blue.
C10_Witness ==
    /\ ~BLE_AVAILABLE
    /\ pc = "sleep"
    /\ Len(events) >= 1 /\ events[Len(events)].name = "DAH_UP"
    /\ pixel = IDLE_BLUE
    /\ adv_calls = 0 /\ wire = <<>> /\ ~last_connected

\* C11: two "UART write failed" reports are always more than 2 s apart: a report is
\* made only when the clock is more than 2000 ms past last_uart_error, which holds
\* the time of the previous report (last_uart_error changes only with a report, to
\* the report's time), however many writes fail in between.
C11_ReportsRateLimited ==
    [][ /\ (reports' /= reports /\ reports' /= 0) =>
              /\ reports' = reports + 1
              /\ clock - last_uart_error > 2000
              /\ last_uart_error' = clock
        /\ last_uart_error' /= last_uart_error => reports' = reports + 1
      ]_vars

\* C11's case: both writes of one tick failed, after two long quiet periods; one
\* report was made.
C11_Witness ==
    /\ Len(wire) = 2 /\ ~wire[1].ok /\ ~wire[2].ok
    /\ reports = 1
    /\ last_uart_error > 2 * 2000

\* C12: the DIT evaluation reads and writes only DIT's debounce state and leaves
\* DAH's as it is, and the other way round: whether a contact's evaluation emits an
\* event is decided by that contact's raw level, confirmed level and last_change
\* alone, whatever the other contact does.
C12_ContactsIndependent ==
    [][ /\ DitEval =>
              /\ UNCHANGED <<last_dah, last_change_dah>>
              /\ events' = events \/ (Emitted /\ NewEvent.contact = "DIT")
              /\ Emitted <=> (dit_value /= last_dit /\ now - last_change_dit >= 10)
        /\ DahEval =>
              /\ UNCHANGED <<last_dit, last_change_dit>>
              /\ events' = events \/ (Emitted /\ NewEvent.contact = "DAH")
              /\ Emitted <=> (dah_value /= last_dah /\ now - last_change_dah >= 10)
      ]_vars

\* C12's case: DIT bounces inside its own window (confirmed 5 ms ago, raw level
\* different again) while a clean DAH transition is confirmed in this tick.
C12_Witness ==
    /\ pc = "sleep"
    /\ Len(events) = 1 /\ events[1].contact = "DAH"
    /\ last_change_dah = now
    /\ dit_value /= last_dit /\ now - last_change_dit = 5

\* The lines of the two contacts as the peer receives them.
K1Lines == {"K1:1\n", "K1:0\n"}
K2Lines == {"K2:1\n", "K2:0\n"}

\* C13: within one tick the link state is polled first, then DIT is evaluated,
\* then DAH: the tick's log and writes start empty at the poll, a DIT event and
\* its line come before anything else of the tick, and a DAH event, its colour and
\* its line come after DIT's, so no K2 line precedes the K1 line of the same tick.
C13_DitBeforeDah ==
    [][ /\ (pc = "top" /\ pc' /= pc) => (pc' = "dit" /\ events' = <<>> /\ wire' = <<>>)
        /\ (pc = "dit" /\ pc' /= pc) => pc' = "dah"
        /\ (pc = "dah" /\ pc' /= pc) => pc' = "sleep"
        /\ (DitEval /\ Emitted) =>
              /\ events = <<>> /\ wire = <<>>
              /\ NewEvent.contact = "DIT"
              /\ \A i \in 1..Len(wire') : wire'[i].data \in K1Lines
        /\ (DahEval /\ Emitted) =>
              /\ \A i \in 1..Len(events) : events[i].contact = "DIT"
              /\ events' = Append(events, NewEvent) /\ NewEvent.contact = "DAH"
              /\ \A i \in 1..Len(wire) : wire[i].data \in K1Lines
              /\ wire' = wire \/ (/\ Len(wire') = Len(wire) + 1
                                  /\ SubSeq(wire', 1, Len(wire)) = wire
                                  /\ wire'[Len(wire')].data \in K2Lines)
              /\ pixel' \in {BRIGHT_BLUE, PURPLE, IDLE_BLUE}
      ]_vars

\* C13's case: both contacts were pressed and confirmed in one tick while
\* connected; K1:1 was written before K2:1 and the pixel shows DAH's colour.
C13_Witness ==
    /\ pc = "sleep"
    /\ Len(events) = 2
    /\ events[1].name = "DIT_DOWN" /\ events[2].name = "DAH_DOWN"
    /\ Len(wire) = 2 /\ wire[1].data = "K1:1\n" /\ wire[2].data = "K2:1\n"
    /\ pixel = BRIGHT_BLUE

\* C14: a tick in which a contact's raw level equals its confirmed level emits no
\* event for it and leaves its confirmed level and last_change as they are,
\* however long ago the last confirmed change was.
C14_PollIdempotent ==
    [][ /\ (DitEval /\ dit_value = last_dit) =>
              events' = events /\ UNCHANGED <<last_dit, last_change_dit>>
        /\ (DahEval /\ dah_value = last_dah) =>
              events' = events /\ UNCHANGED <<last_dah, last_change_dah>>
      ]_vars

\* C14's case: DIT's transition was confirmed at 10 ms; at 25 ms the raw level has
\* not moved since, the window is long over, and this tick's evaluation of DIT
\* emitted nothing.
C14_Witness ==
    /\ pc = "dah"
    /\ events = <<>>
    /\ last_change_dit = 10 /\ now = 25
    /\ dit_value = last_dit /\ dit_held >= 10

\* C15: in the first iteration of the loop no DIT or DAH event is emitted, whatever
\* raw level is read there and however long after the seeding the iteration runs.
C15_FirstPollSilent ==
    [][ (first_tick /\ (DitEval \/ DahEval)) => events' = events ]_vars

\* C16: every event carries as its timestamp the tick's time snapshot now, the
\* value stored as the contact's last_change, so the events of one tick carry the
\* same timestamp.
C16_TimestampIsSnapshot ==
    /\ \A i \in 1..Len(events) : events[i].ts = events[i].at
    /\ \A i, j \in 1..Len(events) : events[i].ts = events[j].ts

\* The line of a logged event.
LineOfEvent(e) ==
    CASE e.name = "DIT_DOWN" -> "K1:1\n"
      [] e.name = "DIT_UP"   -> "K1:0\n"
      [] e.name = "DAH_DOWN" -> "K2:1\n"
      [] e.name = "DAH_UP"   -> "K2:0\n"

\* Every write of the tick is the one write of an event confirmed in this tick.
WritesAreOfThisTick(log, sent) ==
    /\ Len(sent) <= Len(log)
    /\ \A i \in 1..Len(sent) : \E j \in i..Len(log) : sent[i].data = LineOfEvent(log[j])
    /\ \A i, k \in 1..Len(sent) : i /= k => sent[i].data /= sent[k].data

\* C17: events are neither buffered nor retried, and a failed send does not stop
\* the loop: the writes of a tick are at most one per event confirmed in that
\* tick, so an event that was not written, or whose write failed, is not written
\* in a later tick; an evaluation that confirms an event updates the confirmed
\* level and last_change and goes on to the next step whether nothing was
\* written, the write failed or it succeeded.
C17_NoBufferNoRetry ==
    [][ /\ WritesAreOfThisTick(events', wire')
        /\ (DitEval \/ DahEval) /\ ~Emitted => wire' = wire
        /\ Emitted => Len(wire') <= Len(wire) + 1
        /\ (pc = "dit" /\ pc' /= pc /\ dit_value /= last_dit
                /\ now - last_change_dit >= 10) =>
              Emitted /\ last_dit' = dit_value /\ last_change_dit' = now /\ pc' = "dah"
        /\ (pc = "dah" /\ pc' /= pc /\ dah_value /= last_dah
                /\ now - last_change_dah >= 10) =>
              Emitted /\ last_dah' = dah_value /\ last_change_dah' = now /\ pc' = "sleep"
        /\ (pc = "sleep" /\ pc' /= pc) => pc' = "top"
      ]_vars

\* C17's case: DIT's press was confirmed while connected and its write failed; the
\* debounce state is updated and the loop has gone on to DAH.
C17_Witness ==
    /\ pc = "dah"
    /\ Len(events) = 1 /\ events[1].name = "DIT_DOWN"
    /\ wire = << [data |-> "K1:1\n", ok |-> FALSE] >>
    /\ last_dit = FALSE /\ last_change_dit = now

\* C18: the events of a contact alternate between pressed and released: the
\* confirmed level holds the seeded level or the edge of the contact's last event
\* (it changes only with an event, to that event's edge), and every event has the
\* edge opposite to the confirmed level it replaces.
C18_EdgesAlternate ==
    [][ /\ (DitEval /\ Emitted) =>
              /\ NewEvent.name = IF last_dit THEN "DIT_DOWN" ELSE "DIT_UP"
              /\ last_dit' = (NewEvent.name = "DIT_UP")
        /\ (DahEval /\ Emitted) =>
              /\ NewEvent.name = IF last_dah THEN "DAH_DOWN" ELSE "DAH_UP"
              /\ last_dah' = (NewEvent.name = "DAH_UP")
        /\ last_dit' /= last_dit => (DitEval /\ Emitted)
        /\ last_dah' /= last_dah => (DahEval /\ Emitted)
      ]_vars

\* C18's case: DIT's release is confirmed at 20 ms, the earliest tick at which it
\* can follow a press (at 10 ms) of a contact seeded released.
C18_Witness ==
    /\ pc = "dah"
    /\ Len(events) = 1 /\ events[1].name = "DIT_UP"
    /\ last_dit = TRUE /\ last_change_dit = now /\ now = 20

\* C20: a failed write is reported whenever no failure was reported in the 2 s
\* before it (last_uart_error is still 0.0, or more than 2 s old); so the first
\* failed write of a run is reported, at whatever clock value it happens.
C20_FailureReportedWhenDue ==
    [][ ( /\ Len(wire') = Len(wire) + 1
          /\ ~wire'[Len(wire')].ok
          /\ (last_uart_error = 0 \/ clock - last_uart_error > 2000) ) =>
            reports' = reports + 1
      ]_vars

\* A raw level that differs from the confirmed one while the clock values explored
\* leave time for a whole window.
DitPending(v) ==
    dit_value = v /\ last_dit /= v /\ clock + DEBOUNCE <= MaxTime
DahPending(v) ==
    dah_value = v /\ last_dah /= v /\ clock + DEBOUNCE <= MaxTime

\* C19: when a contact's raw level differs from its confirmed level and stays
\* there, an event for it is emitted in the first tick whose time is at least
\* last_change + 10 ms, and such a tick comes: the confirmed level becomes the raw
\* level unless the raw level moves first.
C19_HeldLevelConfirmed ==
    /\ [][ /\ (DitEval /\ dit_value /= last_dit /\ now >= last_change_dit + 10) =>
                 Emitted /\ last_dit' = dit_value
           /\ (DahEval /\ dah_value /= last_dah /\ now >= last_change_dah + 10) =>
                 Emitted /\ last_dah' = dah_value
         ]_vars
    /\ DitPending(TRUE)  ~> (last_dit = TRUE \/ dit_value = FALSE)
    /\ DitPending(FALSE) ~> (last_dit = FALSE \/ dit_value = TRUE)
    /\ DahPending(TRUE)  ~> (last_dah = TRUE \/ dah_value = FALSE)
    /\ DahPending(FALSE) ~> (last_dah = FALSE \/ dah_value = TRUE)

\* C19's case: DIT went down 5 ms before the tick at 20 ms, stayed down, and its
\* press was confirmed in that tick.
C19_Witness ==
    /\ pc = "dah"
    /\ Len(events) = 1 /\ events[1].name = "DIT_DOWN"
    /\ last_change_dit = now /\ now = 20
    /\ dit_value = FALSE /\ dit_held = 5

====
